---- MODULE Spec2Model ----
(***************************************************************************)
(* A model of the study application: the App component (state store,       *)
(* handlers, effects; src/unnamed/part_000) and the service layer it calls *)
(* (geminiService and the build configuration; src/vite.config.ts).        *)
(*                                                                         *)
(* One step of the model is one task of the browser's event loop: a user   *)
(* event with the handler it runs, the render that follows and the effects *)
(* of that render; or the resolution of one outstanding external call with *)
(* the continuation that runs on it.  Handlers therefore read the state of *)
(* the latest render, and functional updaters (prev => ...) read the       *)
(* latest state.                                                           *)
(*                                                                         *)
(* JavaScript values are modelled with a tag: undefined, null, a string (a *)
(* sequence of pieces, so that template literals keep their arguments and  *)
(* the empty string is the empty sequence), an array.  An object is a      *)
(* function whose domain is the set of its keys, so that an absent key and *)
(* a key holding undefined differ, as they do for JSON.stringify.          *)
(***************************************************************************)
EXTENDS Naturals, Sequences, FiniteSets, Bags, TLC

----------------------------------------------------------------------------
(* Bounds of the model *)

\* external requests started in one run
MaxRequests == 3

----------------------------------------------------------------------------
(* JavaScript values *)

Undef == [t |-> "undefined"]
NullV == [t |-> "null"]
Str(pieces) == [t |-> "string", s |-> pieces]
Arr(items) == [t |-> "array", a |-> items]

\* null in a field typed `string | null`
null == "null"

\* JavaScript truthiness, as used by `!x`, `x || y` and `if (x)`
Truthy(v) ==
    CASE v.t = "undefined" -> FALSE
      [] v.t = "null" -> FALSE
      [] v.t = "string" -> v.s # <<>>
      [] OTHER -> TRUE

\* neither undefined nor null
NonNull(v) == v.t \notin {"undefined", "null"}

EmptyObj == <<>>
Has(o, k) == k \in DOMAIN o
\* { ...o, [k]: v }
Put(o, k, v) == [x \in (DOMAIN o) \cup {k} |-> IF x = k THEN v ELSE o[x]]
\* o[k] of an object whose values are JavaScript values
Get(o, k) == IF Has(o, k) THEN o[k] ELSE Undef

----------------------------------------------------------------------------
(* The catalog and the external world *)

Subjects == {"Computer Science"}
Standards == {"Class 10"}

\* CHAPTERS[subject][standard]
CHAPTERS(subject, standard) ==
    IF subject = "Computer Science" /\ standard = "Class 10"
    THEN {"Functions", "Sorting"}
    ELSE {}

AllChapters == UNION {CHAPTERS(s, st) : s \in Subjects, st \in Standards}

\* the question strings the model may return as topics
TopicNames == {"What is a function?", "How do you define a function in Python?"}

ContentTypes == {"answer", "image", "mcqs", "eli5"}

\* the values of VITE_HF_API_KEY in the environment of the build
BuildEnvValues == {Undef, Str(<<>>), Str(<<"hf_key">>)}

----------------------------------------------------------------------------
(* The service layer: what each exported function makes of what the       *)
(* external service answered.  A response is Reject (the call rejected, or *)
(* its text did not parse) or Json(v), the parsed value.                   *)

Obj(o) == [t |-> "object", o |-> o]
Reject == [t |-> "reject"]
Json(v) == [t |-> "json", json |-> v]

Return(v) == [ok |-> TRUE, value |-> v]
Throw(pieces) == [ok |-> FALSE, message |-> pieces]

\* parsedData.<key>: a property read throws on null and undefined
Prop(v, key) ==
    CASE v.t \in {"undefined", "null"} -> Throw(<<"TypeError">>)
      [] v.t = "object" -> Return(Get(v.o, key))
      [] OTHER -> Return(Undef)

\* `"${process.env.VITE_X}"`: the template literal's text for a variable
TemplateText(v) == IF v.t = "undefined" THEN <<"undefined">> ELSE v.s

\* define: { 'process.env.HF_API_KEY': `"${process.env.VITE_HF_API_KEY}"` }
HF_API_KEY(buildEnv) == Str(TemplateText(buildEnv))

TopicsResponses ==
    { Reject,
      Json(Arr(<<>>)),
      Json(Arr(<<"What is a function?">>)),
      Json(Arr(<<"How do you define a function in Python?">>)) }

getChapterTopics(chapterName, resp) ==
    IF resp.t = "reject"
    THEN Throw(<<"Failed to get topics for ", chapterName>>)
    ELSE Return(resp.json)

AnswerResponses ==
    { Reject,
      Json(Obj([answer |-> Str(<<"explanation">>)])),
      Json(Obj([answer |-> Str(<<>>)])),
      Json(Obj(EmptyObj)) }

getTopicContent(topic, resp) ==
    LET tried == IF resp.t = "reject" THEN Throw(<<"rejected">>)
                 ELSE Prop(resp.json, "answer")
    IN IF tried.ok THEN tried
       ELSE Throw(<<"Failed to get content for topic: ", topic>>)

Eli5Responses == {Reject, Json(Str(<<"simple explanation">>))}

getELI5ForTopic(topic, resp) ==
    IF resp.t = "reject"
    THEN Throw(<<"Failed to get a simplified explanation for: ", topic>>)
    ELSE Return(resp.json)

MCQItem(q) == [question |-> q, options |-> <<"a", "b", "c", "d">>, correctAnswer |-> "a"]
Quiz4 == <<MCQItem("q1"), MCQItem("q2"), MCQItem("q3"), MCQItem("q4")>>

McqResponses ==
    { Reject,
      Json(Arr(<<>>)),
      Json(Arr(Quiz4)),
      Json(Obj(EmptyObj)) }

\* the body of getMCQsForTopic's try block
McqTry(resp) ==
    IF resp.t = "reject" THEN Throw(<<"rejected">>)
    ELSE IF resp.json.t # "array" \/ Len(resp.json.a) = 0
         THEN Throw(<<"Model returned an invalid or empty array for MCQs.">>)
         ELSE Return(resp.json)

getMCQsForTopic(topic, resp) ==
    LET tried == McqTry(resp)
    IN IF tried.ok THEN tried
       ELSE Throw(<<"Failed to generate a quiz for: ", topic, ". Please try again.">>)

\* generateImageForTopic, first statement: TRUE when the call goes on
ImageKeyConfigured(buildEnv) == Truthy(HF_API_KEY(buildEnv))

ImageConfigError == <<"Hugging Face API key is not configured. Cannot generate image.">>

\* the answers to the prompt request and to the image POST
ImagePromptResponses == {Reject, Json(Obj([prompt |-> Str(<<"a diagram">>)]))}
ImagePostResponses ==
    { Reject,
      [t |-> "http", status |-> "503", body |-> Obj(EmptyObj)],
      [t |-> "http", status |-> "401", body |-> Obj(EmptyObj)],
      [t |-> "http", status |-> "200", body |-> Obj(EmptyObj)],
      [t |-> "http", status |-> "200", body |-> Obj([image |-> Str(<<"base64">>)])] }

\* generateImageForTopic up to the POST: Return(prompt) when the POST is sent
ImagePromptStep(resp) ==
    LET tried == IF resp.t = "reject" THEN Throw(<<"network error">>)
                 ELSE Prop(resp.json, "prompt")
    IN tried

\* generateImageForTopic from the POST's answer on
ImagePostStep(resp) ==
    IF resp.t = "reject" THEN Throw(<<"network error">>)
    ELSE IF resp.status = "503"
         THEN Throw(<<"The visualization model is currently loading. Please wait about 20 seconds and try again.">>)
    ELSE IF resp.status # "200"
         THEN Throw(<<"Failed to generate image. Status: ", resp.status, ".">>)
    ELSE IF Truthy(Get(resp.body.o, "image"))
         THEN Return(resp.body.o.image)
         ELSE Throw(<<"The model did not return a valid image. It may be under maintenance.">>)

----------------------------------------------------------------------------
(* The state *)

VARIABLES
    buildEnv,         \* VITE_HF_API_KEY when the bundle was built
    persistentState,  \* the state store (PersistentState)
    isTopicsLoading,  \* Record<chapter, boolean>
    error,            \* the global error slot: NullV or a string
    chatSession,      \* NullV or the session handle
    chatHistory,      \* the transcript
    isChatLoading,
    isChatReady,
    speechState,      \* {isPlaying, currentTopic}
    utterances,       \* window.speechSynthesis: the queue of utterances, by topic
    inflight,         \* the outstanding external calls, with what awaits them (a bag)
    netCalls,         \* the network calls generateImageForTopic has issued
    nreq,             \* external requests started so far
    crashed           \* an error thrown while rendering has unmounted the App

vars == <<buildEnv, persistentState, isTopicsLoading, error, chatSession,
          chatHistory, isChatLoading, isChatReady, speechState, utterances,
          inflight, netCalls, nreq, crashed>>

\* the default state of loadPersistentState
DefaultState ==
    [ subject |-> null, standard |-> null, isCourseSelected |-> FALSE,
      selectedChapter |-> null, selectedTopic |-> null,
      topics |-> EmptyObj, content |-> EmptyObj, activeView |-> EmptyObj,
      noMoreTopics |-> EmptyObj ]

\* JSON.stringify of an object: a key whose value is undefined is left out
StringifyObj(o) == [k \in {x \in DOMAIN o : x = "isLoading" \/ o[x] # Undef} |-> o[k]]

StringifyTopicContent(tc) ==
    [ question |-> tc.question,
      answer |-> StringifyObj(tc.answer), image |-> StringifyObj(tc.image),
      mcqs |-> StringifyObj(tc.mcqs), eli5 |-> StringifyObj(tc.eli5) ]

\* Stringify as it would be if it left the views out
Stringify_WithoutViews(ps) ==
    [text |-> [ps EXCEPT !.activeView = EmptyObj, !.content =
                   [k \in DOMAIN ps.content |-> StringifyTopicContent(ps.content[k])]]]

\* JSON.stringify(persistentState)
Stringify(ps) ==
    [text |-> [ps EXCEPT !.content =
                   [k \in DOMAIN ps.content |-> StringifyTopicContent(ps.content[k])]]]

\* JSON.parse of a text that Stringify wrote
Parse(saved) == saved.text

\* other texts the item may hold: the text of any JSON value, a text that
\* JSON.parse throws on, and the empty string
Text(v) == [text |-> v]
Garbled == [garbled |-> TRUE]
EmptyText == [empty |-> TRUE]

\* `if (savedState)`: the item is there and is not the empty string
ItemFound(saved) == saved # NullV /\ saved # EmptyText

loadPersistentState(saved) ==
    IF ItemFound(saved) /\ saved # Garbled THEN Parse(saved) ELSE DefaultState

\* the item after loadPersistentState: its catch block removes a text that did not parse
StorageAfterLoad(saved) ==
    IF ItemFound(saved) /\ saved = Garbled THEN NullV ELSE saved

\* the value has the fields the App reads of its store
IsStore(v) == DOMAIN v = DOMAIN DefaultState

\* the effect on [persistentState], which runs after every render that changed the
\* store: localStorage.setItem(APP_STATE_KEY, JSON.stringify(persistentState))
Persist(ps) == Stringify(ps)

\* localStorage[APP_STATE_KEY] between two steps
storage == Persist(persistentState)

IdleSpeech == [isPlaying |-> FALSE, currentTopic |-> null]

ChatMessage(role, parts) == [role |-> role, parts |-> parts]

startChatSession(standard, subject, chapter) ==
    [t |-> "chat", standard |-> standard, subject |-> subject, chapter |-> chapter]

CourseGreeting(subject, standard) ==
    ChatMessage("model", <<"I'm your AI study buddy! Ask me anything about the ", subject,
                           " syllabus for ", standard, ", or select a chapter to begin.">>)

ChapterGreeting(chapter) ==
    ChatMessage("model", <<"Great! Let's focus on ", chapter,
                           ". Select a topic, or ask me a specific question.">>)

\* the effect on [isCourseSelected, standard, subject, selectedChapter], run after
\* a render with state store ps and transcript history: <<session, history, ready>>
ChatEffect(ps, session, history) ==
    IF ps.isCourseSelected /\ ps.standard # null /\ ps.subject # null
    THEN << startChatSession(ps.standard, ps.subject, ps.selectedChapter),
            IF Len(history) = 0 THEN <<CourseGreeting(ps.subject, ps.standard)>> ELSE history,
            TRUE >>
    ELSE << session, <<>>, FALSE >>

Init ==
    /\ buildEnv \in BuildEnvValues
    /\ persistentState = loadPersistentState(NullV)
    /\ isTopicsLoading = EmptyObj
    /\ error = NullV
    /\ chatSession = NullV
    /\ chatHistory = <<>>
    /\ isChatLoading = FALSE
    /\ isChatReady = FALSE
    /\ speechState = IdleSpeech
    /\ utterances = <<>>
    /\ inflight = EmptyBag
    /\ netCalls = {}
    /\ nreq = 0
    /\ crashed = FALSE

----------------------------------------------------------------------------
(* Handlers of the App component *)

\* what the render reads of the store
subject == persistentState.subject
standard == persistentState.standard
isCourseSelected == persistentState.isCourseSelected
selectedChapter == persistentState.selectedChapter
selectedTopic == persistentState.selectedTopic
topics == persistentState.topics
content == persistentState.content

\* the chapter dropdown, the topic dropdown and the course panel are rendered
CoursePanelShown == isCourseSelected /\ subject # null /\ standard # null

Range(q) == {q[i] : i \in DOMAIN q}

\* cancelSpeech: the values of utterances and speechState after it
CancelledUtterances == <<>>
\* CancelledSpeechState as it would be if cancelSpeech left the state as it is
CancelledSpeechState_Kept == speechState
CancelledSpeechState == IdleSpeech

TopicsRequest(chapter) == [kind |-> "topics", chapter |-> chapter]

\* FetchTopicsProceeds as it would be without the in-flight flag
FetchTopicsProceeds_Unguarded(chapter) ==
    /\ standard # null
    /\ subject # null

\* fetchTopics goes past its first line
FetchTopicsProceeds(chapter) ==
    /\ ~(Has(isTopicsLoading, chapter) /\ isTopicsLoading[chapter])
    /\ standard # null
    /\ subject # null

\* handleChapterSelect calls fetchTopics
ChapterSelectFetches(chapter) == ~Has(topics, chapter)

\* the store after handleChapterSelect's update
ChapterSelected(prev, chapter) ==
    [prev EXCEPT !.selectedChapter = chapter, !.selectedTopic = null]

handleCourseSelect(newSubject, newStandard) ==
    /\ ~isCourseSelected
    /\ persistentState' = [persistentState EXCEPT !.subject = newSubject,
                                                  !.standard = newStandard,
                                                  !.isCourseSelected = TRUE]
    /\ LET eff == ChatEffect(persistentState', chatSession, chatHistory)
       IN /\ chatSession' = eff[1]
          /\ chatHistory' = eff[2]
          /\ isChatReady' = eff[3]
    /\ UNCHANGED <<buildEnv, crashed, isTopicsLoading, error, isChatLoading, speechState,
                   utterances, inflight, netCalls, nreq>>

handleChapterSelect(chapter) ==
    /\ CoursePanelShown
    /\ chapter \in CHAPTERS(subject, standard)
    /\ IF selectedChapter = chapter \/ standard = null \/ subject = null
       THEN UNCHANGED <<buildEnv, crashed, persistentState, isTopicsLoading, error,
                       chatSession, chatHistory, isChatLoading, isChatReady,
                       speechState, utterances, inflight, netCalls, nreq>>
       ELSE LET starts == ChapterSelectFetches(chapter) /\ FetchTopicsProceeds(chapter)
            IN /\ starts => nreq < MaxRequests
               /\ persistentState' = ChapterSelected(persistentState, chapter)
               /\ utterances' = CancelledUtterances
               /\ speechState' = CancelledSpeechState
               /\ IF starts
                  THEN /\ isTopicsLoading' = Put(isTopicsLoading, chapter, TRUE)
                       /\ error' = NullV
                       /\ inflight' = inflight (+) SetToBag({TopicsRequest(chapter)})
                       /\ nreq' = nreq + 1
                  ELSE UNCHANGED <<isTopicsLoading, error, inflight, nreq>>
               /\ LET eff == ChatEffect(persistentState', chatSession,
                                        <<ChapterGreeting(chapter)>>)
                  IN /\ chatSession' = eff[1]
                     /\ chatHistory' = eff[2]
                     /\ isChatReady' = eff[3]
               /\ UNCHANGED <<buildEnv, crashed, isChatLoading, netCalls>>

\* TopicDropdown's onLoadMore: selectedChapter && fetchTopics(selectedChapter)
onLoadMore ==
    /\ CoursePanelShown
    /\ selectedChapter # null
    /\ IF FetchTopicsProceeds(selectedChapter)
       THEN /\ nreq < MaxRequests
            /\ isTopicsLoading' = Put(isTopicsLoading, selectedChapter, TRUE)
            /\ error' = NullV
            /\ inflight' = inflight (+) SetToBag({TopicsRequest(selectedChapter)})
            /\ nreq' = nreq + 1
       ELSE UNCHANGED <<isTopicsLoading, error, inflight, nreq>>
    /\ UNCHANGED <<buildEnv, crashed, persistentState, chatSession, chatHistory,
                   isChatLoading, isChatReady, speechState, utterances, netCalls>>

\* TopicsApplied as it would be if it stored the returned list in place of the old
TopicsApplied_Replacing(prev, chapter, newTopics) ==
    [prev EXCEPT !.topics = Put(prev.topics, chapter, newTopics),
                 !.noMoreTopics = IF Len(newTopics) = 0
                                  THEN Put(prev.noMoreTopics, chapter, TRUE)
                                  ELSE prev.noMoreTopics]

\* TopicsApplied as it would be if it left out the items the list already holds
TopicsApplied_Deduplicating(prev, chapter, newTopics) ==
    LET old == IF Has(prev.topics, chapter) THEN prev.topics[chapter] ELSE <<>>
        IsNew(x) == x \notin Range(old)
    IN IF Len(newTopics) = 0
       THEN [prev EXCEPT !.noMoreTopics = Put(prev.noMoreTopics, chapter, TRUE)]
       ELSE [prev EXCEPT !.topics = Put(prev.topics, chapter, old \o SelectSeq(newTopics, IsNew))]

\* the store after fetchTopics applied the returned list
TopicsApplied(prev, chapter, newTopics) ==
    IF Len(newTopics) = 0
    THEN [prev EXCEPT !.noMoreTopics = Put(prev.noMoreTopics, chapter, TRUE)]
    ELSE [prev EXCEPT !.topics =
              Put(prev.topics, chapter,
                  (IF Has(prev.topics, chapter) THEN prev.topics[chapter] ELSE <<>>)
                      \o newTopics)]

\* LoadingCleared as it would be without the finally block
LoadingCleared_Kept(flags, chapter) == flags

\* fetchTopics' finally block: setIsTopicsLoading(prev => ({ ...prev, [chapter]: false }))
LoadingCleared(flags, chapter) == Put(flags, chapter, FALSE)

\* getChapterTopics settles and fetchTopics resumes
fetchTopicsResumes(r, resp) ==
    /\ r \in BagToSet(inflight)
    /\ r.kind = "topics"
    /\ LET result == getChapterTopics(r.chapter, resp)
       IN /\ persistentState' =
                 IF result.ok THEN TopicsApplied(persistentState, r.chapter, result.value.a)
                 ELSE persistentState
          /\ error' = IF result.ok THEN error ELSE Str(result.message)
    /\ isTopicsLoading' = LoadingCleared(isTopicsLoading, r.chapter)
    /\ inflight' = inflight (-) SetToBag({r})
    /\ UNCHANGED <<buildEnv, crashed, chatSession, chatHistory, isChatLoading, isChatReady,
                   speechState, utterances, netCalls, nreq>>

\* TopicSelected as it would be if a new topic also reset the views
TopicSelected_ResettingViews(prev, topic) ==
    [prev EXCEPT !.selectedTopic = topic, !.activeView = EmptyObj]

\* the store after handleTopicSelect's update
TopicSelected(prev, topic) == [prev EXCEPT !.selectedTopic = topic]

handleTopicSelect(topic) ==
    /\ CoursePanelShown
    /\ selectedChapter # null
    /\ Has(topics, selectedChapter)
    /\ topic \in Range(topics[selectedChapter])
    /\ persistentState' = TopicSelected(persistentState, topic)
    /\ utterances' = CancelledUtterances
    /\ speechState' = CancelledSpeechState
    /\ UNCHANGED <<buildEnv, crashed, isTopicsLoading, error, chatSession, chatHistory,
                   isChatLoading, isChatReady, inflight, netCalls, nreq>>

\* ItemRemoved as it would be if the key were not removed
ItemRemoved_Kept(saved) == saved

\* localStorage.getItem(APP_STATE_KEY) after localStorage.removeItem(APP_STATE_KEY)
ItemRemoved(saved) == NullV

\* resetStateForNewSelection, with the render and the effects that follow it
resetStateForNewSelection ==
    /\ CoursePanelShown
    /\ persistentState' = loadPersistentState(ItemRemoved(storage))
    /\ error' = NullV
    /\ LET eff == ChatEffect(persistentState', NullV, <<>>)
       IN /\ chatSession' = eff[1]
          /\ chatHistory' = eff[2]
          /\ isChatReady' = eff[3]
    /\ utterances' = CancelledUtterances
    /\ speechState' = CancelledSpeechState
    /\ UNCHANGED <<buildEnv, crashed, isTopicsLoading, isChatLoading, inflight, netCalls, nreq>>

----------------------------------------------------------------------------
(* Content slots *)

NewTopicContent(topic) ==
    [ question |-> topic, answer |-> [isLoading |-> FALSE], image |-> [isLoading |-> FALSE],
      mcqs |-> [isLoading |-> FALSE], eli5 |-> [isLoading |-> FALSE] ]

\* the slot contentUpdater writes: [type]: { isLoading, data, error }
WrittenSlot(loading, data, err) == [isLoading |-> loading, data |-> data, error |-> err]

\* contentUpdater as it would be if it merged into the slot instead of replacing it
contentUpdater_Merging(prev, topic, type, loading, data, err) ==
    LET currentTopicContent ==
            IF Has(prev.content, topic) THEN prev.content[topic] ELSE NewTopicContent(topic)
        old == currentTopicContent[type]
    IN [prev EXCEPT !.content =
            Put(prev.content, topic,
                [currentTopicContent EXCEPT ![type] =
                    WrittenSlot(loading,
                                IF data = Undef THEN Get(old, "data") ELSE data,
                                IF err = Undef THEN Get(old, "error") ELSE err)])]

\* contentUpdater as it would be if it did not spread the topic's other slots
contentUpdater_Fresh(prev, topic, type, loading, data, err) ==
    [prev EXCEPT !.content =
        Put(prev.content, topic,
            [NewTopicContent(topic) EXCEPT ![type] = WrittenSlot(loading, data, err)])]

\* fetchContent's contentUpdater(isLoading, data, error), applied to the store prev
contentUpdater(prev, topic, type, loading, data, err) ==
    LET currentTopicContent ==
            IF Has(prev.content, topic) THEN prev.content[topic] ELSE NewTopicContent(topic)
    IN [prev EXCEPT !.content =
            Put(prev.content, topic,
                [currentTopicContent EXCEPT ![type] = WrittenSlot(loading, data, err)])]

\* content[topic]?.[type].data and .error
SlotData(c, topic, type) == IF Has(c, topic) THEN Get(c[topic][type], "data") ELSE Undef
SlotError(c, topic, type) == IF Has(c, topic) THEN Get(c[topic][type], "error") ELSE Undef
SlotLoading(c, topic, type) == Has(c, topic) /\ c[topic][type].isLoading

\* GenerateFetches as it would be without the test
GenerateFetches_Always(c, topic, type) == TRUE

\* the handlers' test before fetchContent: !content[topic]?.[type].data
GenerateFetches(c, topic, type) == ~Truthy(SlotData(c, topic, type))

\* fetchContent goes past its first line
FetchContentProceeds == selectedChapter # null /\ standard # null /\ subject # null

ContentRequest(topic, type, phase, speech) ==
    [kind |-> "content", topic |-> topic, type |-> type, phase |-> phase, speech |-> speech]

\* ContentSettled as it would be if a result that arrives with no course selected
\* were dropped
ContentSettled_UnlessReset(prev, topic, type, result) ==
    IF ~prev.isCourseSelected THEN prev
    ELSE IF result.ok
    THEN contentUpdater(prev, topic, type, FALSE, result.value, Undef)
    ELSE contentUpdater(prev, topic, type, FALSE, Undef, Str(result.message))

\* ContentSettled as it would be if the catch block wrote nothing
ContentSettled_ErrorsDropped(prev, topic, type, result) ==
    IF result.ok
    THEN contentUpdater(prev, topic, type, FALSE, result.value, Undef)
    ELSE prev

\* the store after fetchContent's call returned or threw
ContentSettled(prev, topic, type, result) ==
    IF result.ok
    THEN contentUpdater(prev, topic, type, FALSE, result.value, Undef)
    ELSE contentUpdater(prev, topic, type, FALSE, Undef, Str(result.message))

\* handleGenerateAnswer, handleGenerateImage, handleGenerateMCQs, handleGenerateELI5
handleGenerate(type) ==
    /\ selectedTopic # null
    /\ LET topic == selectedTopic
           viewed == [persistentState EXCEPT !.activeView = Put(@, topic, type)]
           fetches == GenerateFetches(content, topic, type) /\ FetchContentProceeds
           loading == contentUpdater(viewed, topic, type, TRUE, Undef, Undef)
       IN IF ~fetches
          THEN /\ persistentState' = viewed
               /\ UNCHANGED <<inflight, netCalls, nreq>>
          ELSE IF type = "image" /\ ~ImageKeyConfigured(buildEnv)
          THEN /\ persistentState' =
                      ContentSettled(loading, topic, type, Throw(ImageConfigError))
               /\ UNCHANGED <<inflight, netCalls, nreq>>
          ELSE /\ nreq < MaxRequests
               /\ persistentState' = loading
               /\ inflight' = inflight (+) SetToBag({ContentRequest(topic, type, "llm", FALSE)})
               /\ netCalls' = IF type = "image" THEN netCalls \cup {"prompt"} ELSE netCalls
               /\ nreq' = nreq + 1
    /\ UNCHANGED <<buildEnv, crashed, isTopicsLoading, error, chatSession, chatHistory,
                   isChatLoading, isChatReady, speechState, utterances>>

\* what the external service may answer to the call r is waiting for
ResponsesFor(r) ==
    CASE r.type = "answer" -> AnswerResponses
      [] r.type = "eli5" -> Eli5Responses
      [] r.type = "mcqs" -> McqResponses
      [] r.type = "image" /\ r.phase = "llm" -> ImagePromptResponses
      [] r.type = "image" /\ r.phase = "post" -> ImagePostResponses

\* what the service function returns or throws on this response; for an image's
\* prompt request, Return means that the POST is sent
ServiceResult(r, resp) ==
    CASE r.type = "answer" -> getTopicContent(r.topic, resp)
      [] r.type = "eli5" -> getELI5ForTopic(r.topic, resp)
      [] r.type = "mcqs" -> getMCQsForTopic(r.topic, resp)
      [] r.type = "image" /\ r.phase = "llm" -> ImagePromptStep(resp)
      [] r.type = "image" /\ r.phase = "post" -> ImagePostStep(resp)

\* AnswerAfterFetch as it would be if it fell back on the slot's error text
AnswerAfterFetch_OrError(ps, topic, eager) ==
    IF NonNull(SlotError(ps.content, topic, "answer"))
    THEN SlotError(ps.content, topic, "answer")
    ELSE IF eager THEN SlotData(ps.content, topic, "answer") ELSE Undef

\* handleToggleSpeech after `await fetchContent`: the answer it goes on with.
\* The updater that reads it runs at once or at the next render, as React decides.
AnswerAfterFetch(ps, topic, eager) ==
    IF eager THEN SlotData(ps.content, topic, "answer") ELSE Undef

imagePromptSettles(r, resp) ==
    /\ r \in BagToSet(inflight)
    /\ r.kind = "content" /\ r.type = "image" /\ r.phase = "llm"
    /\ resp \in ResponsesFor(r)
    /\ ServiceResult(r, resp).ok
    /\ inflight' = (inflight (-) SetToBag({r}))
                       (+) SetToBag({ContentRequest(r.topic, r.type, "post", r.speech)})
    /\ netCalls' = netCalls \cup {"post"}
    /\ UNCHANGED <<buildEnv, crashed, persistentState, isTopicsLoading, error, chatSession,
                   chatHistory, isChatLoading, isChatReady, speechState, utterances, nreq>>

\* the external call settles and fetchContent resumes; then handleToggleSpeech, if
\* it awaits this fetchContent
fetchContentResumes(r, resp, eager) ==
    /\ r \in BagToSet(inflight)
    /\ r.kind = "content"
    /\ LET result == ServiceResult(r, resp)
       IN /\ ~(r.type = "image" /\ r.phase = "llm" /\ result.ok)
          /\ persistentState' = ContentSettled(persistentState, r.topic, r.type, result)
    /\ inflight' = inflight (-) SetToBag({r})
    /\ IF r.speech
       THEN IF Truthy(AnswerAfterFetch(persistentState', r.topic, eager))
            THEN /\ utterances' = Append(utterances, r.topic)
                 /\ UNCHANGED speechState
            ELSE /\ speechState' = IdleSpeech
                 /\ UNCHANGED utterances
       ELSE /\ eager
            /\ UNCHANGED <<speechState, utterances>>
    /\ UNCHANGED <<buildEnv, crashed, isTopicsLoading, error, chatSession, chatHistory,
                   isChatLoading, isChatReady, netCalls, nreq>>

handleToggleSpeech ==
    /\ selectedTopic # null
    /\ LET topic == selectedTopic
           answer == SlotData(content, topic, "answer")
       IN IF speechState.isPlaying /\ speechState.currentTopic = topic
          THEN /\ utterances' = CancelledUtterances
               /\ speechState' = CancelledSpeechState
               /\ UNCHANGED <<persistentState, inflight, nreq>>
          ELSE IF Truthy(answer)
          THEN /\ utterances' = Append(CancelledUtterances, topic)
               /\ speechState' = [isPlaying |-> TRUE, currentTopic |-> topic]
               /\ UNCHANGED <<persistentState, inflight, nreq>>
          ELSE IF ~FetchContentProceeds
          THEN /\ utterances' = CancelledUtterances
               /\ speechState' = IdleSpeech
               /\ UNCHANGED <<persistentState, inflight, nreq>>
          ELSE /\ nreq < MaxRequests
               /\ utterances' = CancelledUtterances
               /\ speechState' = [isPlaying |-> TRUE, currentTopic |-> topic]
               /\ persistentState' =
                      contentUpdater(persistentState, topic, "answer", TRUE, Undef, Undef)
               /\ inflight' = inflight (+) SetToBag({ContentRequest(topic, "answer", "llm", TRUE)})
               /\ nreq' = nreq + 1
    /\ UNCHANGED <<buildEnv, crashed, isTopicsLoading, error, chatSession, chatHistory,
                   isChatLoading, isChatReady, netCalls>>

\* the utterance being spoken ends: utterance.onend
utteranceEnds ==
    /\ utterances # <<>>
    /\ utterances' = Tail(utterances)
    /\ speechState' = IdleSpeech
    /\ UNCHANGED <<buildEnv, crashed, persistentState, isTopicsLoading, error, chatSession,
                   chatHistory, isChatLoading, isChatReady, inflight, netCalls, nreq>>

\* a page load that finds the text saved under APP_STATE_KEY: App is constructed from
\* it, and the calls that were outstanding are dropped with the old page.  A store
\* that lacks the fields the App reads makes it throw while it renders.
pageLoadsFrom(saved) ==
    /\ persistentState' = IF IsStore(loadPersistentState(saved))
                          THEN loadPersistentState(saved)
                          ELSE DefaultState
    /\ crashed' = ~IsStore(loadPersistentState(saved))
    /\ isTopicsLoading' = EmptyObj
    /\ error' = NullV
    /\ LET eff == ChatEffect(persistentState', NullV, <<>>)
       IN /\ chatSession' = eff[1]
          /\ chatHistory' = eff[2]
          /\ isChatReady' = eff[3]
    /\ isChatLoading' = FALSE
    /\ speechState' = IdleSpeech
    /\ utterances' = <<>>
    /\ inflight' = EmptyBag
    /\ UNCHANGED <<buildEnv, netCalls, nreq>>

\* the page is loaded again with what the App itself saved
pageReload == pageLoadsFrom(storage)

ContentRequests == {r \in BagToSet(inflight) : r.kind = "content"}

\* the user's actions
CourseSelect == \E s \in Subjects, st \in Standards : handleCourseSelect(s, st)
ChapterSelect == \E c \in AllChapters : handleChapterSelect(c)
TopicSelect == \E t \in TopicNames : handleTopicSelect(t)
Generate == \E ty \in ContentTypes : handleGenerate(ty)

\* the external calls settle
TopicsSettle ==
    \E r \in BagToSet(inflight), resp \in TopicsResponses : fetchTopicsResumes(r, resp)
ImagePromptSettle ==
    \E r \in ContentRequests : \E resp \in ResponsesFor(r) : imagePromptSettles(r, resp)
ContentSettle ==
    \E r \in ContentRequests : \E resp \in ResponsesFor(r), eager \in BOOLEAN :
        fetchContentResumes(r, resp, eager)

Next ==
    \/ CourseSelect
    \/ ChapterSelect
    \/ onLoadMore
    \/ TopicsSettle
    \/ TopicSelect
    \/ resetStateForNewSelection
    \/ Generate
    \/ ImagePromptSettle
    \/ ContentSettle
    \/ handleToggleSpeech
    \/ utteranceEnds

Spec == Init /\ [][Next]_vars

\* the same, with pages that are loaded again
SpecReload == Init /\ [][Next \/ pageReload]_vars

\* an external call that is outstanding returns or fails in the end
Settle == TopicsSettle \/ ImagePromptSettle \/ ContentSettle

SpecFair == Spec /\ WF_vars(Settle)

----------------------------------------------------------------------------
(* Speech, from a chapter whose list holds two topics *)

\* the application after a course and the chapter "Functions" were selected and two
\* topic-list responses of one topic each were appended; requests are counted from
\* here on
InitSpeech ==
    /\ buildEnv = Str(<<"hf_key">>)
    /\ persistentState =
           TopicsApplied(
               TopicsApplied(
                   ChapterSelected([DefaultState EXCEPT !.subject = "Computer Science",
                                                        !.standard = "Class 10",
                                                        !.isCourseSelected = TRUE],
                                   "Functions"),
                   "Functions", <<"What is a function?">>),
               "Functions", <<"How do you define a function in Python?">>)
    /\ isTopicsLoading = Put(EmptyObj, "Functions", FALSE)
    /\ error = NullV
    /\ chatSession = startChatSession("Class 10", "Computer Science", "Functions")
    /\ chatHistory = <<ChapterGreeting("Functions")>>
    /\ isChatLoading = FALSE
    /\ isChatReady = TRUE
    /\ speechState = IdleSpeech
    /\ utterances = <<>>
    /\ inflight = EmptyBag
    /\ netCalls = {}
    /\ nreq = 0
    /\ crashed = FALSE

GenerateAnswer == handleGenerate("answer")

NextSpeech ==
    \/ TopicSelect
    \/ GenerateAnswer
    \/ handleToggleSpeech
    \/ ContentSettle
    \/ utteranceEnds

SpecSpeech == InitSpeech /\ [][NextSpeech]_vars

\* the first mount in a build with an image key, for the parts of the App that do
\* not read it
InitChat == Init /\ buildEnv = Str(<<"hf_key">>)

----------------------------------------------------------------------------
(* Quizzes, with the malformed lists the model may return *)

\* non-empty arrays that are not a quiz: three items; an item with three options;
\* an item whose correctAnswer is none of its options
MalformedQuizzes ==
    { Json(Arr(SubSeq(Quiz4, 1, 3))),
      Json(Arr([Quiz4 EXCEPT ![4].options = <<"a", "b", "c">>])),
      Json(Arr([Quiz4 EXCEPT ![4].correctAnswer = "z"])) }

GenerateMCQs == handleGenerate("mcqs")

QuizSettle ==
    \E r \in ContentRequests : \E resp \in McqResponses \cup MalformedQuizzes :
        r.type = "mcqs" /\ fetchContentResumes(r, resp, TRUE)

NextQuiz ==
    \/ TopicSelect
    \/ GenerateMCQs
    \/ QuizSettle

SpecQuiz == InitSpeech /\ [][NextQuiz]_vars

----------------------------------------------------------------------------
(* Page loads, also from an item the App did not write *)

\* texts under APP_STATE_KEY that are not the serialization of a store: a text that
\* does not parse, and the texts of the JSON values {} and null
CorruptTexts == {Garbled, Text(Obj(EmptyObj)), Text(NullV)}

\* the page is loaded after the item was overwritten from outside the App
pageLoadsCorrupted == \E saved \in CorruptTexts : pageLoadsFrom(saved)

\* selections and topic lists, with page loads
NextStored ==
    \/ ~crashed /\ CourseSelect
    \/ ~crashed /\ ChapterSelect
    \/ ~crashed /\ onLoadMore
    \/ ~crashed /\ TopicsSettle
    \/ ~crashed /\ TopicSelect
    \/ ~crashed /\ resetStateForNewSelection
    \/ ~crashed /\ pageReload
    \/ ~crashed /\ pageLoadsCorrupted

SpecStored == InitChat /\ [][NextStored]_vars

----------------------------------------------------------------------------
(* The chat panel *)

\* fragments one stream delivers at most
MaxChunks == 2

\* what the user may send: a message is a sequence of pieces of text
Messages == {<<"hi">>, <<" ">>}

NotBlank(piece) == piece # " "
\* message.trim()
Trim(message) == SelectSeq(message, NotBlank)

\* chunk.text of a chunk of the stream: a text, or undefined for a chunk without text
ChunkTexts == {Str(<<"Hel">>), Str(<<"lo">>), Undef}

\* what a stream may fail with: an Error, or a value that is not an Error
StreamErrors == {Str(<<"network error">>), Undef}

\* the outstanding sendMessageStream call of a handleSendMessage, with the transcript
\* the send found and the chunk texts the stream has delivered so far
ChatRequest(message, before) ==
    [kind |-> "chat", message |-> message, before |-> before, got |-> <<>>]

ChatRequests == {r \in BagToSet(inflight) : r.kind = "chat"}

\* setChatHistory(prev => [...prev, userMessage, { role: 'model', parts: '' }])
MessageSent(prev, message) ==
    prev \o <<ChatMessage("user", message), ChatMessage("model", <<>>)>>

\* the updater of a chunk: lastMessage.parts += chunkText when the last entry is the
\* model's; on an empty transcript lastMessage is undefined and the updater throws
ChunkThrows(prev) == Len(prev) = 0
ChunkApplied(prev, chunkText) ==
    IF prev[Len(prev)].role = "model"
    THEN [prev EXCEPT ![Len(prev)].parts = @ \o chunkText.s]
    ELSE prev

\* the catch block's errorText
ErrorText(err) ==
    IF err.t = "string"
    THEN <<"Sorry, an error occurred: ">> \o err.s
    ELSE <<"Sorry, I couldn't get a response.">>

\* the catch block's updater: newHistory[newHistory.length - 1] = { role, parts };
\* on an empty transcript the assignment adds no element
ErrorSubstituted(prev, err) ==
    IF Len(prev) = 0 THEN prev
    ELSE [prev EXCEPT ![Len(prev)] = ChatMessage("model", ErrorText(err))]

\* continueChatStream's catch: sendMessageStream threw before it returned a promise
StreamStartError == Str(<<"Could not start a streaming chat session. Please try again.">>)

\* handleSendMessage up to its first await that waits for the service; with
\* starts = FALSE sendMessageStream throws at once and the handler ends in this step
handleSendMessage(message, starts) ==
    /\ ~crashed
    /\ isChatReady
    /\ IF chatSession = NullV \/ isChatLoading \/ Trim(message) = <<>>
       THEN UNCHANGED <<chatHistory, isChatLoading, inflight, nreq>>
       ELSE /\ nreq < MaxRequests
            /\ nreq' = nreq + 1
            /\ IF starts
               THEN /\ isChatLoading' = TRUE
                    /\ chatHistory' = MessageSent(chatHistory, message)
                    /\ inflight' = inflight (+) SetToBag({ChatRequest(message, chatHistory)})
               ELSE /\ isChatLoading' = FALSE
                    /\ chatHistory' = ErrorSubstituted(MessageSent(chatHistory, message),
                                                       StreamStartError)
                    /\ UNCHANGED inflight
    /\ UNCHANGED <<buildEnv, crashed, persistentState, isTopicsLoading, error, chatSession,
                   isChatReady, speechState, utterances, netCalls>>

\* the stream delivers a chunk: one turn of the for await loop
chatStreamYields(r, chunkText) ==
    /\ ~crashed
    /\ r \in ChatRequests
    /\ Len(r.got) < MaxChunks
    /\ inflight' = (inflight (-) SetToBag({r}))
                       (+) SetToBag({[r EXCEPT !.got = Append(@, chunkText)]})
    /\ IF ~Truthy(chunkText)
       THEN UNCHANGED <<chatHistory, crashed>>
       ELSE IF ChunkThrows(chatHistory)
       THEN /\ crashed' = TRUE
            /\ UNCHANGED chatHistory
       ELSE /\ chatHistory' = ChunkApplied(chatHistory, chunkText)
            /\ UNCHANGED crashed
    /\ UNCHANGED <<buildEnv, persistentState, isTopicsLoading, error, chatSession,
                   isChatLoading, isChatReady, speechState, utterances, netCalls, nreq>>

\* the stream is exhausted: the loop ends and the finally block runs
chatStreamEnds(r) ==
    /\ ~crashed
    /\ r \in ChatRequests
    /\ inflight' = inflight (-) SetToBag({r})
    /\ isChatLoading' = FALSE
    /\ UNCHANGED <<buildEnv, crashed, persistentState, isTopicsLoading, error, chatSession,
                   chatHistory, isChatReady, speechState, utterances, netCalls, nreq>>

\* sendMessageStream rejects or the stream throws: the catch and finally blocks run
chatStreamFails(r, err) ==
    /\ ~crashed
    /\ r \in ChatRequests
    /\ inflight' = inflight (-) SetToBag({r})
    /\ chatHistory' = ErrorSubstituted(chatHistory, err)
    /\ isChatLoading' = FALSE
    /\ UNCHANGED <<buildEnv, crashed, persistentState, isTopicsLoading, error, chatSession,
                   isChatReady, speechState, utterances, netCalls, nreq>>

SendMessage == \E m \in Messages, starts \in BOOLEAN : handleSendMessage(m, starts)
StreamYields == \E r \in ChatRequests, c \in ChunkTexts : chatStreamYields(r, c)
StreamEnds == \E r \in ChatRequests : chatStreamEnds(r)
StreamFails == \E r \in ChatRequests, e \in StreamErrors : chatStreamFails(r, e)

\* the chat panel with the selections that replace the transcript; once the App is
\* unmounted nothing is left to act on
NextChat ==
    \/ ~crashed /\ CourseSelect
    \/ ~crashed /\ ChapterSelect
    \/ ~crashed /\ resetStateForNewSelection
    \/ SendMessage
    \/ StreamYields
    \/ StreamEnds
    \/ StreamFails

SpecChat == InitChat /\ [][NextChat]_vars

----------------------------------------------------------------------------
(* The claims *)

activeView == persistentState.activeView
noMoreTopics == persistentState.noMoreTopics

\* the slots of the store
StoredSlots == {<<t, ty>> : t \in DOMAIN content, ty \in ContentTypes}

\* fetchContent calls for a slot whose external call is outstanding
FetchesOutstanding(bag, topic, type) ==
    CopiesIn(ContentRequest(topic, type, "llm", FALSE), bag)
        + CopiesIn(ContentRequest(topic, type, "llm", TRUE), bag)
        + CopiesIn(ContentRequest(topic, type, "post", FALSE), bag)

\* this step starts a fetchContent call's external request for the slot
FetchStarted(topic, type) == nreq' > nreq /\
    FetchesOutstanding(inflight', topic, type) > FetchesOutstanding(inflight, topic, type)

\* this step starts a topic-list request for the chapter
TopicsFetchStarted(chapter) ==
    CopiesIn(TopicsRequest(chapter), inflight') > CopiesIn(TopicsRequest(chapter), inflight)

\* C1: in every reachable state, a slot whose isLoading is true has neither data
\* nor error
C1_LoadingSlotIsBare ==
    \A sl \in StoredSlots :
        content[sl[1]][sl[2]].isLoading =>
            /\ SlotData(content, sl[1], sl[2]) = Undef
            /\ SlotError(content, sl[1], sl[2]) = Undef

\* a slot is loading, as contentUpdater(true) wrote it, while its call is outstanding
C1_Witness ==
    \E sl \in StoredSlots :
        /\ content[sl[1]][sl[2]].isLoading
        /\ "data" \in DOMAIN content[sl[1]][sl[2]]
        /\ FetchesOutstanding(inflight, sl[1], sl[2]) > 0

\* C2: a slot that a completed fetch wrote (isLoading false, written by
\* contentUpdater) holds exactly one of data and error
C2_CompletedFetchHasDataOrError ==
    \A sl \in StoredSlots :
        LET slot == content[sl[1]][sl[2]]
        IN (~slot.isLoading /\ "data" \in DOMAIN slot) =>
               (NonNull(slot.data) # NonNull(slot.error))

\* C3: a step that leaves an error in a slot that held data leaves the data as it was
C3_FailedFetchKeepsData ==
    [][\A sl \in StoredSlots :
          (/\ NonNull(SlotData(content, sl[1], sl[2]))
           /\ NonNull(SlotError(content', sl[1], sl[2])))
          => SlotData(content', sl[1], sl[2]) = SlotData(content, sl[1], sl[2])]_vars

\* C4: when a topic-list fetch returns the empty list, the chapter is flagged as
\* exhausted, its topic sequence is what it was, and no other chapter's topics or
\* flag change
C4_EmptyTopicsResponse ==
    [][\A r \in BagToSet(inflight) :
          (r.kind = "topics" /\ fetchTopicsResumes(r, Json(Arr(<<>>))))
          => /\ Has(noMoreTopics', r.chapter) /\ noMoreTopics'[r.chapter]
             /\ topics' = topics
             /\ \A c \in AllChapters \ {r.chapter} :
                    /\ Has(noMoreTopics', c) = Has(noMoreTopics, c)
                    /\ Has(noMoreTopics, c) => noMoreTopics'[c] = noMoreTopics[c]]_vars

\* a chapter that has topics is flagged as exhausted
C4_Witness ==
    \E c \in AllChapters :
        /\ Has(topics, c) /\ Len(topics[c]) > 0
        /\ Has(noMoreTopics, c) /\ noMoreTopics[c]

\* C5: when the model answers a quiz request with the empty array, the mcqs slot's
\* error is the "invalid or empty" error and its data is absent
C5_EmptyQuizIsInvalidOrEmpty ==
    [][\A r \in ContentRequests :
          (r.type = "mcqs" /\ fetchContentResumes(r, Json(Arr(<<>>)), TRUE))
          => /\ SlotError(content', r.topic, "mcqs")
                    = Str(<<"Model returned an invalid or empty array for MCQs.">>)
             /\ ~NonNull(SlotData(content', r.topic, "mcqs"))]_vars

\* C6: with no image-service credential in the build, generateImageForTopic
\* issues no network call
C6_NoCredentialNoNetworkCall ==
    buildEnv = Undef => netCalls = {}

\* C7: a generate action on a slot that holds non-empty data starts
\* no request and leaves the slot as it is, and no step starts a fetch for a slot
\* while the store holds non-empty data for it
C7_NoFetchWhileDataHeld ==
    [][/\ \A ty \in ContentTypes :
             (handleGenerate(ty) /\ Truthy(SlotData(content, selectedTopic, ty)))
             => /\ inflight' = inflight
                /\ netCalls' = netCalls
                /\ content'[selectedTopic][ty] = content[selectedTopic][ty]
       /\ \A t \in TopicNames, ty \in ContentTypes :
             Truthy(SlotData(content, t, ty)) => ~FetchStarted(t, ty)]_vars

\* the selected topic's slot on view holds non-empty data and nothing is outstanding
C7_Witness ==
    /\ selectedTopic # null
    /\ Has(activeView, selectedTopic)
    /\ Truthy(SlotData(content, selectedTopic, activeView[selectedTopic]))
    /\ inflight = EmptyBag

\* C7 for any data: the same for a slot that holds data of any value, the empty
\* string included
C7_NoFetchWhileAnyDataHeld ==
    [][/\ \A ty \in ContentTypes :
             (handleGenerate(ty) /\ NonNull(SlotData(content, selectedTopic, ty)))
             => /\ inflight' = inflight
                /\ netCalls' = netCalls
                /\ content'[selectedTopic][ty] = content[selectedTopic][ty]
       /\ \A t \in TopicNames, ty \in ContentTypes :
             NonNull(SlotData(content, t, ty)) => ~FetchStarted(t, ty)]_vars

\* C8: handleTopicSelect changes selectedTopic and resets speech to idle, and
\* nothing else: no fetch is started, and topics, content, activeView, noMoreTopics,
\* the loading flags and the outstanding requests are what they were
C8_TopicSelectStartsNothing ==
    [][\A t \in TopicNames :
          handleTopicSelect(t)
          => /\ selectedTopic' = t
             /\ speechState' = IdleSpeech
             /\ topics' = topics /\ content' = content
             /\ activeView' = activeView /\ noMoreTopics' = noMoreTopics
             /\ subject' = subject /\ standard' = standard
             /\ isCourseSelected' = isCourseSelected
             /\ selectedChapter' = selectedChapter
             /\ isTopicsLoading' = isTopicsLoading
             /\ inflight' = inflight /\ netCalls' = netCalls /\ nreq' = nreq]_vars

\* a topic is selected while a content request for another topic is outstanding
C8_Witness ==
    \E r \in ContentRequests :
        /\ selectedTopic # null
        /\ r.topic # selectedTopic
        /\ speechState = IdleSpeech

\* C9: resetStateForNewSelection leaves the default store, no chat session, an
\* empty transcript and idle speech, whatever is outstanding
C9_ResetRestoresDefault ==
    [][resetStateForNewSelection
       => /\ subject' = null /\ standard' = null /\ ~isCourseSelected'
          /\ selectedChapter' = null /\ selectedTopic' = null
          /\ topics' = EmptyObj /\ content' = EmptyObj
          /\ activeView' = EmptyObj /\ noMoreTopics' = EmptyObj
          /\ chatSession' = NullV
          /\ chatHistory' = <<>>
          /\ speechState' = IdleSpeech /\ utterances' = <<>>]_vars

\* the store is the default one while requests are outstanding
C9_Witness ==
    /\ persistentState = DefaultState
    /\ \E r \in BagToSet(inflight) : r.kind = "content"
    /\ \E r \in BagToSet(inflight) : r.kind = "topics"
    /\ chatSession = NullV /\ chatHistory = <<>>

\* what C10 says of a chapter selection, given when it starts a topic-list fetch
ChapterSelectionDoes(c, fetches) ==
    IF c = selectedChapter
    THEN UNCHANGED vars
    ELSE /\ selectedChapter' = c
         /\ selectedTopic' = null
         /\ chatHistory' = <<ChapterGreeting(c)>>
         /\ TopicsFetchStarted(c) = fetches

\* C10: selecting another chapter sets selectedChapter, clears
\* selectedTopic, makes the transcript the chapter's greeting, and starts a
\* topic-list fetch exactly if no list is cached for the chapter and no topic-list
\* fetch for it is outstanding; selecting the selected chapter changes nothing
C10_ChapterSelectFetchesUnlessCachedOrLoading ==
    [][\A c \in AllChapters :
          handleChapterSelect(c)
          => ChapterSelectionDoes(c, ~Has(topics, c)
                                     /\ CopiesIn(TopicsRequest(c), inflight) = 0)]_vars

\* a chapter with no cached list is selected, its first fetch is still the only one,
\* and the other chapter was selected in between
C10_Witness ==
    \E c \in AllChapters :
        /\ selectedChapter = c
        /\ chatHistory = <<ChapterGreeting(c)>>
        /\ ~Has(topics, c)
        /\ CopiesIn(TopicsRequest(c), inflight) = 1
        /\ \E d \in AllChapters \ {c} : Has(topics, d)
        /\ nreq = 2

\* C10 without the loading guard: the fetch starts exactly if no list is cached
C10_ChapterSelectFetchesUnlessCached ==
    [][\A c \in AllChapters :
          handleChapterSelect(c) => ChapterSelectionDoes(c, ~Has(topics, c))]_vars

\* the speech state that names a topic as playing
Playing(topic) == [isPlaying |-> TRUE, currentTopic |-> topic]

\* C11: toggling speech twice in a row for a topic, from the idle state, leaves the
\* speech state idle, whether the answer is cached or not: the first toggle makes
\* the state name the selected topic, and a toggle in that state makes it idle and
\* leaves no utterance
C11_ToggleTwiceIsIdle ==
    [][handleToggleSpeech
       => /\ speechState = IdleSpeech
                => /\ speechState' = Playing(selectedTopic)
                   /\ selectedTopic' = selectedTopic
          /\ speechState = Playing(selectedTopic)
                => /\ speechState' = IdleSpeech
                   /\ utterances' = <<>>]_vars

\* speech is idle while the answer fetch that a first toggle started is outstanding
C11_Witness ==
    /\ speechState = IdleSpeech
    /\ utterances = <<>>
    /\ selectedTopic # null
    /\ CopiesIn(ContentRequest(selectedTopic, "answer", "llm", TRUE), inflight) = 1
    /\ nreq = 1

\* C12: speech is single-flight: at no time are utterances of two topics active,
\* and a toggle that starts speech for a topic while an utterance of another topic
\* is active leaves no utterance of the other topic and makes the speech state name
\* the new one
C12_SpeechIsSingleFlight ==
    /\ [](\A i, j \in DOMAIN utterances : utterances[i] = utterances[j])
    /\ [][(/\ handleToggleSpeech
           /\ utterances # <<>>
           /\ utterances[1] # selectedTopic
           /\ speechState # Playing(selectedTopic))
          => /\ Range(utterances') \subseteq {selectedTopic}
             /\ speechState' = Playing(selectedTopic)]_vars

\* the concatenation, in arrival order, of the texts a stream delivered
RECURSIVE Concatenated(_)
Concatenated(got) ==
    IF got = <<>> THEN <<>>
    ELSE (IF Truthy(Head(got)) THEN Head(got).s ELSE <<>>) \o Concatenated(Tail(got))

\* C13: when the stream of a send completes normally, the transcript is the one the
\* send found, followed by the user's message and by a reply whose text is the
\* concatenation, in arrival order, of the fragments the stream delivered
C13_ReplyIsConcatenation ==
    [][\A r \in ChatRequests :
          chatStreamEnds(r)
          => chatHistory' = r.before \o <<ChatMessage("user", r.message),
                                           ChatMessage("model", Concatenated(r.got))>>]_vars

\* isTopicsLoading[chapter] || false
TopicsLoading(chapter) == Has(isTopicsLoading, chapter) /\ isTopicsLoading[chapter]

\* C14: at any time at most one topic-list request per chapter is outstanding, the
\* chapter's loading flag is true exactly while it is, and a topic-list fetch asked
\* for while the chapter's request is outstanding changes nothing
C14_OneTopicsFetchPerChapter ==
    /\ [](\A c \in AllChapters :
             /\ CopiesIn(TopicsRequest(c), inflight) <= 1
             /\ TopicsLoading(c) <=> CopiesIn(TopicsRequest(c), inflight) = 1)
    /\ [][(onLoadMore /\ CopiesIn(TopicsRequest(selectedChapter), inflight) > 0)
          => UNCHANGED vars]_vars

\* the selected chapter's topic-list request is outstanding, a second one could be
\* started, and the other chapter's request has been answered
C14_Witness ==
    /\ CoursePanelShown
    /\ selectedChapter # null
    /\ CopiesIn(TopicsRequest(selectedChapter), inflight) = 1
    /\ TopicsLoading(selectedChapter)
    /\ nreq < MaxRequests
    /\ \E c \in AllChapters \ {selectedChapter} :
           Has(isTopicsLoading, c) /\ ~isTopicsLoading[c]

\* two slots read the same: the same isLoading, data and error
SameSlot(x, y) ==
    /\ x.isLoading = y.isLoading
    /\ Get(x, "data") = Get(y, "data")
    /\ Get(x, "error") = Get(y, "error")

\* two stores read the same
SameStore(x, y) ==
    /\ x.subject = y.subject /\ x.standard = y.standard
    /\ x.isCourseSelected = y.isCourseSelected
    /\ x.selectedChapter = y.selectedChapter /\ x.selectedTopic = y.selectedTopic
    /\ x.topics = y.topics
    /\ x.activeView = y.activeView
    /\ x.noMoreTopics = y.noMoreTopics
    /\ DOMAIN x.content = DOMAIN y.content
    /\ \A t \in DOMAIN x.content :
           /\ x.content[t].question = y.content[t].question
           /\ \A ty \in ContentTypes : SameSlot(x.content[t][ty], y.content[t][ty])

C16_CorruptedItemIsDropped ==
    [][\A saved \in CorruptTexts :
          pageLoadsFrom(saved)
          => /\ loadPersistentState(saved) = DefaultState
             /\ StorageAfterLoad(saved) = NullV
             /\ persistentState' = DefaultState /\ ~crashed']_vars

\* four items, each with four options and a correctAnswer that is one of them
WellFormedQuiz(v) ==
    /\ v.t = "array"
    /\ Len(v.a) = 4
    /\ \A i \in DOMAIN v.a :
           /\ Len(v.a[i].options) = 4
           /\ v.a[i].correctAnswer \in Range(v.a[i].options)

\* C17: getMCQsForTopic returns four items, each with four options and a
\* correctAnswer among them, or it fails: whatever the model answered, the quiz
\* request leaves an error in the slot or a well-formed quiz
C17_QuizIsWellFormedOrFails ==
    [][\A r \in ContentRequests : \A resp \in McqResponses \cup MalformedQuizzes :
          (r.type = "mcqs" /\ fetchContentResumes(r, resp, TRUE))
          => /\ getMCQsForTopic(r.topic, resp).ok
                    => WellFormedQuiz(getMCQsForTopic(r.topic, resp).value)
             /\ \/ NonNull(SlotError(content', r.topic, "mcqs"))
                \/ WellFormedQuiz(SlotData(content', r.topic, "mcqs"))]_vars

\* C18: when a stream fails after fragments were appended to the reply, the reply
\* entry that is left begins with the text already received
C18_FailedStreamKeepsFragments ==
    [][\A r \in ChatRequests : \A e \in StreamErrors :
          (chatStreamFails(r, e) /\ Concatenated(r.got) # <<>> /\ chatHistory # <<>>)
          => LET reply == chatHistory'[Len(chatHistory')].parts
                 received == chatHistory[Len(chatHistory)].parts
             IN /\ Len(reply) >= Len(received)
                /\ SubSeq(reply, 1, Len(received)) = received]_vars

\* this step takes the request r from the outstanding ones
Settles(r) == CopiesIn(r, inflight') < CopiesIn(r, inflight)

\* C19: a reset or a change of selection aborts no outstanding request, and the
\* completion of a request is applied to the store whatever was reset or selected
\* since it started: a content result is written to its slot, and a returned topic
\* list is appended to its chapter's list
C19_OutstandingRequestsAreApplied ==
    [][\A r \in BagToSet(inflight) :
          Settles(r)
          => /\ ~(resetStateForNewSelection \/ TopicSelect \/ ChapterSelect)
             /\ r.kind = "content"
                    => \A resp \in ResponsesFor(r) :
                           fetchContentResumes(r, resp, TRUE)
                           => LET result == ServiceResult(r, resp)
                              IN /\ Has(content', r.topic)
                                 /\ ~content'[r.topic][r.type].isLoading
                                 /\ SlotData(content', r.topic, r.type) =
                                        (IF result.ok THEN result.value ELSE Undef)
                                 /\ SlotError(content', r.topic, r.type) =
                                        (IF result.ok THEN Undef ELSE Str(result.message))
             /\ r.kind = "topics"
                    => \A resp \in TopicsResponses \ {Reject, Json(Arr(<<>>))} :
                           fetchTopicsResumes(r, resp)
                           => /\ Has(topics', r.chapter)
                              /\ topics'[r.chapter] =
                                     (IF Has(topics, r.chapter) THEN topics[r.chapter]
                                      ELSE <<>>) \o resp.json.a]_vars

\* after a reset, with no course selected and nothing outstanding, the store holds
\* a topic list and an answer that were requested before the reset
C19_Witness ==
    /\ ~isCourseSelected
    /\ subject = null
    /\ inflight = EmptyBag
    /\ \E c \in AllChapters : Has(topics, c)
    /\ \E t \in DOMAIN content : NonNull(SlotData(content, t, "answer"))

\* what the App reads of a slot
SlotRead(c, topic, type) ==
    <<SlotLoading(c, topic, type), SlotData(c, topic, type), SlotError(c, topic, type)>>

\* this step leaves every slot but the one of topic and type as it reads
OthersSame(topic, type) ==
    \A t \in TopicNames, ty \in ContentTypes :
        <<t, ty>> # <<topic, type>> => SlotRead(content', t, ty) = SlotRead(content, t, ty)

\* the results of two outstanding fetches, applied in this order
SettledBoth(prev, r1, resp1, r2, resp2) ==
    ContentSettled(ContentSettled(prev, r1.topic, r1.type, ServiceResult(r1, resp1)),
                   r2.topic, r2.type, ServiceResult(r2, resp2))

\* C20: slots are independent: a fetch for a slot, when it starts and when it
\* completes, leaves every other slot of the topic and of the other topics as it
\* was, and the results of two outstanding fetches for different slots give the
\* same store in either order of completion
C20_SlotsAreIndependent ==
    /\ [][/\ nreq' > nreq
             => \A t \in TopicNames, ty \in ContentTypes :
                    FetchStarted(t, ty) => OthersSame(t, ty)
          /\ \A r \in ContentRequests : Settles(r) => OthersSame(r.topic, r.type)]_vars
    /\ [](\A r1, r2 \in ContentRequests :
             (r1.phase # "llm" \/ r1.type # "image") /\ (r2.phase # "llm" \/ r2.type # "image")
             /\ <<r1.topic, r1.type>> # <<r2.topic, r2.type>>
             => \A resp1 \in ResponsesFor(r1), resp2 \in ResponsesFor(r2) :
                    SettledBoth(persistentState, r1, resp1, r2, resp2)
                        = SettledBoth(persistentState, r2, resp2, r1, resp1))

\* one of two fetches for different slots of a topic has completed, the other is
\* outstanding, and a third slot of the topic holds a result
C20_Witness ==
    \E r \in ContentRequests :
        /\ SlotLoading(content, r.topic, r.type)
        /\ \E ty \in ContentTypes \ {r.type} : NonNull(SlotData(content, r.topic, ty))
        /\ \E ty \in ContentTypes \ {r.type} : NonNull(SlotError(content, r.topic, ty))

\* the slot as a completed fetchContent leaves it: written, with isLoading false
SlotSettled(c, topic, type) ==
    /\ Has(c, topic)
    /\ ~c[topic][type].isLoading
    /\ DOMAIN c[topic][type] = {"isLoading", "data", "error"}

\* C21: a content fetch that starts leaves its slot loading, and, the external calls
\* returning or failing in the end, a slot that is loading or has a request
\* outstanding comes to be written with isLoading false with none of its requests
\* outstanding; a chapter's loading flag that a topic-list fetch set is cleared in
\* the end
C21_StartedFetchesSettle ==
    /\ [][\A t \in TopicNames, ty \in ContentTypes :
              FetchStarted(t, ty) => SlotLoading(content', t, ty)]_vars
    /\ \A t \in TopicNames, ty \in ContentTypes :
           (FetchesOutstanding(inflight, t, ty) > 0 \/ SlotLoading(content, t, ty))
               ~> (FetchesOutstanding(inflight, t, ty) = 0 /\ SlotSettled(content, t, ty))
    /\ \A c \in AllChapters : TopicsLoading(c) ~> ~TopicsLoading(c)

\* every request of the run has been answered: a slot whose fetch failed is written
\* with isLoading false, and a chapter's flag is cleared
C21_Witness ==
    /\ nreq = MaxRequests
    /\ inflight = EmptyBag
    /\ \E t \in TopicNames, ty \in ContentTypes :
           SlotSettled(content, t, ty) /\ NonNull(SlotError(content, t, ty))
    /\ \E c \in AllChapters : Has(isTopicsLoading, c) /\ ~isTopicsLoading[c]

\* the call returned a text that is not empty
ProducedText(result) == result.ok /\ Truthy(result.value)

\* C22: a toggle that turns speech on for a topic whose answer is not cached starts
\* the answer fetch and no utterance; when that fetch fails, or returns no text, no
\* utterance is started, the speech state becomes idle and the global error slot is
\* what it was
C22_SpeechFetchFailureIsSilent ==
    [][/\ (/\ handleToggleSpeech
           /\ speechState # Playing(selectedTopic)
           /\ ~Truthy(SlotData(content, selectedTopic, "answer")))
          => /\ CopiesIn(ContentRequest(selectedTopic, "answer", "llm", TRUE), inflight')
                    = CopiesIn(ContentRequest(selectedTopic, "answer", "llm", TRUE), inflight) + 1
             /\ utterances' = <<>>
             /\ error' = error
       /\ \A r \in ContentRequests :
             (r.speech /\ Settles(r))
             => \A resp \in ResponsesFor(r), eager \in BOOLEAN :
                    (fetchContentResumes(r, resp, eager) /\ ~ProducedText(ServiceResult(r, resp)))
                    => /\ utterances' = utterances
                       /\ speechState' = IdleSpeech
                       /\ error' = error]_vars

\* the answer fetch of a toggle failed while the global error slot held the message
\* of a failed topic-list fetch: speech is idle, nothing is spoken, and the message
\* is still there
C22_Witness ==
    /\ selectedTopic # null
    /\ NonNull(SlotError(content, selectedTopic, "answer"))
    /\ ~Has(activeView, selectedTopic)
    /\ speechState = IdleSpeech
    /\ utterances = <<>>
    /\ inflight = EmptyBag
    /\ error # NullV

\* the sequence a is the beginning of the sequence b
IsPrefix(a, b) == Len(a) <= Len(b) /\ SubSeq(b, 1, Len(a)) = a

\* the chapter's list, empty when none is stored
TopicsOf(ts, chapter) == IF Has(ts, chapter) THEN ts[chapter] ELSE <<>>

\* C23: in a step that is not the course reset, every chapter's topic list is a
\* prefix of what it is after the step, and a topic-list response that is not empty
\* makes the chapter's list the list before it followed by the returned items in
\* their order, duplicates included, and leaves the other chapters' lists alone
C23_TopicListIsAppendOnly ==
    [][/\ topics' # topics
             => \/ resetStateForNewSelection
                \/ \A c \in AllChapters : IsPrefix(TopicsOf(topics, c), TopicsOf(topics', c))
       /\ \A r \in BagToSet(inflight) :
             (r.kind = "topics" /\ Settles(r))
             => \A resp \in TopicsResponses \ {Reject, Json(Arr(<<>>))} :
                    fetchTopicsResumes(r, resp)
                    => /\ TopicsOf(topics', r.chapter)
                              = TopicsOf(topics, r.chapter) \o resp.json.a
                       /\ \A c \in AllChapters \ {r.chapter} :
                              TopicsOf(topics', c) = TopicsOf(topics, c)]_vars

\* two responses for a chapter returned the same item, and the list holds it twice
C23_Witness ==
    \E c \in AllChapters :
        /\ Has(topics, c)
        /\ Len(topics[c]) = 2
        /\ topics[c][1] = topics[c][2]

\* C24: whenever an utterance is started or is being spoken, the speech state names
\* its topic as playing; so no utterance is started by a fetch that resolves after
\* the speech it was awaited for was cancelled
C24_UtteranceMatchesSpeechState ==
    \A i \in DOMAIN utterances : speechState = Playing(utterances[i])

\* the transcript ends with the user's message and the reply entry of the send r
HoldsReplyOf(history, r) ==
    /\ Len(history) = Len(r.before) + 2
    /\ SubSeq(history, 1, Len(r.before) + 1) = r.before \o <<ChatMessage("user", r.message)>>
    /\ history[Len(history)].role = "model"

\* C25: a step in which the stream of a send delivers a fragment or fails does not
\* throw, and changes the transcript only where the reply entry of that send is:
\* the transcript still ends with the send's message and reply entry, and the
\* entries before the reply are what they were
C25_FragmentsGoToTheirReply ==
    [][\A r \in ChatRequests :
          (\/ \E c \in ChunkTexts : chatStreamYields(r, c)
           \/ \E e \in StreamErrors : chatStreamFails(r, e))
          => /\ ~crashed'
             /\ chatHistory' # chatHistory
                    => /\ HoldsReplyOf(chatHistory, r)
                       /\ HoldsReplyOf(chatHistory', r)]_vars

\* C26: in every reachable state, also after a page load that restored the store
\* from what was saved, a slot whose isLoading is true has a request outstanding
C26_LoadingSlotHasRequest ==
    \A t \in TopicNames, ty \in ContentTypes :
        SlotLoading(content, t, ty) => FetchesOutstanding(inflight, t, ty) > 0

====
